---- MODULE Spec2Model ----
(***************************************************************************)
(* Model of the LocalAI Assistant web client: the streaming response       *)
(* consumer (lib/api.ts, sendMessageStream), the conversation orchestrator *)
(* (App, handleSendMessage), the queries that feed the sidebar, the        *)
(* message list and the model list (App, useQuery and its effects), the    *)
(* sidebar's create and delete mutations, the wrappers of the backend      *)
(* calls (lib/api.ts), the settings panel, the debounce utility            *)
(* (lib/utils.ts) and the global store (lib/store.ts).                     *)
(*                                                                         *)
(* Text is a sequence of characters.  The characters that matter to the   *)
(* consumer are kept as tokens:                                            *)
(*   "P"      the six characters `data: `                                  *)
(*   "NL"     the newline character                                        *)
(*   "J"      text that is neither of the above nor JSON (`: ping`)        *)
(*   "{" "}"  the braces of a JSON object                                  *)
(*   "c:"     the key of a content member and its opening quote            *)
(*   "A" "B" "M" "?"  characters of a content string; "M" is a character   *)
(*            whose UTF-8 encoding has two bytes, "?" is U+FFFD            *)
(*   "i=abc" "i=xyz" "i="  a conversation_id member with value "abc" /     *)
(*            "xyz" / ""                                                   *)
(* The response body is a sequence of bytes: every character above is one *)
(* byte, except "M", which is the two bytes "m1" "m2".                     *)
(***************************************************************************)
EXTENDS Integers, Sequences, FiniteSets, TLC

VARIABLES
    isGenerating,          \* store.isGenerating
    streamingContent,      \* store.streamingContent (sequence of characters)
    activeConversationId,  \* store.activeConversationId (Null or a string)
    settings,              \* store.settings
    inflight,              \* the handleSendMessage calls that are suspended at an await
    event,                 \* what the step just taken was: a send attempt, the
                           \* resolution of a send (with what it did), or another step
    conversations,         \* store.conversations (the sidebar's list)
    conversationQueries,   \* data of the queries ['conversation', uuid], by uuid
    modelsData,            \* data of the query ['models']
    models,                \* store.models
    timeout,               \* debounce: the closure's timer id (0 when it holds null)
    timers,                \* the timers setTimeout has pending, each with the
                           \* arguments its callback closes over
    nextTimer,             \* the id the next setTimeout returns
    invoked,               \* the arguments of the calls made to func, in order
    burst                  \* the arguments of the calls of the debounced function
                           \* since func was last invoked

\* What the queries and their effects hold
dataVars == <<conversations, conversationQueries, modelsData, models>>

\* The state of one debounced function and of its timers
debounceVars == <<timeout, timers, nextTimer, invoked, burst>>

vars == <<isGenerating, streamingContent, activeConversationId, settings,
          inflight, event, conversations, conversationQueries, modelsData, models,
          timeout, timers, nextTimer, invoked, burst>>

\* ---------------------------------------------------------------- bounds
MaxTimers == 4      \* timers one debounced function starts
MaxLines == 2       \* lines in one response body
MaxInFlight == 2    \* suspended handleSendMessage calls the model can hold
MaxModels == 3      \* entries in one models response
MaxConversations == 3   \* conversations the sidebar list can hold
MaxInput == 2       \* characters in the text the user submits

\* ---------------------------------------------------------------- values
Null == "<null>"

\* JavaScript truthiness of a string-or-null / of a character sequence
Truthy(x) == x # Null /\ x # ""
TruthySeq(s) == s # <<>>

\* ---------------------------------------------------------------- strings
\* String.prototype.trim on a sequence of characters (" " is white space)
RECURSIVE TrimLeft(_)
TrimLeft(s) == IF s # <<>> /\ Head(s) = " " THEN TrimLeft(Tail(s)) ELSE s

RECURSIVE TrimRight(_)
TrimRight(s) ==
    IF s # <<>> /\ s[Len(s)] = " " THEN TrimRight(SubSeq(s, 1, Len(s) - 1)) ELSE s

Trim(s) == TrimRight(TrimLeft(s))

\* String.prototype.split('\n'): n separators give n + 1 parts
RECURSIVE SplitNL(_)
SplitNL(s) ==
    IF \A i \in 1..Len(s) : s[i] # "NL"
    THEN <<s>>
    ELSE LET k == CHOOSE i \in 1..Len(s) :
                      s[i] = "NL" /\ \A j \in 1..(i - 1) : s[j] # "NL"
         IN  <<SubSeq(s, 1, k - 1)>> \o SplitNL(SubSeq(s, k + 1, Len(s)))

\* line.startsWith('data: ')
StartsWithData(line) == Len(line) >= 1 /\ line[1] = "P"

\* line.slice(6)
Slice6(line) == Tail(line)

\* ---------------------------------------------------------------- JSON
ValueChars == {"A", "B", "M", "?"}
IdMembers == {"i=abc", "i=xyz", "i="}
IdValue(t) == IF t = "i=abc" THEN "abc" ELSE IF t = "i=xyz" THEN "xyz" ELSE ""

\* The text is a JSON object: braces around members, a content member being
\* its key followed by the characters of its string.
WellFormed(s) ==
    /\ Len(s) >= 2
    /\ s[1] = "{"
    /\ s[Len(s)] = "}"
    /\ \A i \in 2..(Len(s) - 1) :
          \/ s[i] \in IdMembers
          \/ s[i] = "c:"
          \/ s[i] \in ValueChars /\ i > 2 /\ s[i - 1] \in ValueChars \cup {"c:"}

RECURSIVE TakeValue(_)
TakeValue(s) ==
    IF s # <<>> /\ Head(s) \in ValueChars
    THEN <<Head(s)>> \o TakeValue(Tail(s))
    ELSE <<>>

\* JSON.parse: throws (ok = FALSE) on text that is no JSON object; a member
\* that occurs twice keeps its last value; a member that does not occur is
\* undefined (Null for conversation_id, has_content = FALSE for content).
JSONParse(s) ==
    IF ~WellFormed(s)
    THEN [ok |-> FALSE, conversation_id |-> Null, has_content |-> FALSE, content |-> <<>>]
    ELSE LET ids == {i \in 1..Len(s) : s[i] \in IdMembers}
             cs  == {i \in 1..Len(s) : s[i] = "c:"}
             li  == CHOOSE i \in ids : \A j \in ids : j <= i
             lc  == CHOOSE i \in cs : \A j \in cs : j <= i
         IN  [ok |-> TRUE,
              conversation_id |-> IF ids = {} THEN Null ELSE IdValue(s[li]),
              has_content |-> cs # {},
              content |-> IF cs = {} THEN <<>>
                          ELSE TakeValue(SubSeq(s, lc + 1, Len(s)))]

\* ---------------------------------------------------------------- TextDecoder
\* UTF-8 decoding of complete input: "m1" "m2" is the character "M"; a lead
\* byte without its trail byte, or a trail byte alone, decodes to U+FFFD.
RECURSIVE DecodeBytes(_)
DecodeBytes(bs) ==
    IF bs = <<>> THEN <<>>
    ELSE IF bs[1] = "m1"
         THEN IF Len(bs) >= 2 /\ bs[2] = "m2"
              THEN <<"M">> \o DecodeBytes(SubSeq(bs, 3, Len(bs)))
              ELSE <<"?">> \o DecodeBytes(Tail(bs))
    ELSE IF bs[1] = "m2" THEN <<"?">> \o DecodeBytes(Tail(bs))
    ELSE <<bs[1]>> \o DecodeBytes(Tail(bs))

\* decoder.decode(value, { stream: true }): an incomplete character at the
\* end of the input is held back for the next call.
Decode(pending, value) ==
    LET all == pending \o value
    IN  IF all # <<>> /\ all[Len(all)] = "m1"
        THEN [text |-> DecodeBytes(SubSeq(all, 1, Len(all) - 1)), pending |-> <<"m1">>]
        ELSE [text |-> DecodeBytes(all), pending |-> <<>>]

\* ---------------------------------------------------------------- sendMessageStream
\* Mutant of RecordId: tests the member's presence, not its truthiness
RecordIdWhenPresent(conversationId, data) ==
    IF data.conversation_id # Null THEN data.conversation_id ELSE conversationId

\* if (data.conversation_id) conversationId = data.conversation_id
RecordId(conversationId, data) ==
    IF Truthy(data.conversation_id) THEN data.conversation_id ELSE conversationId

\* if (data.content) onChunk(data.content, false)
ContentCalls(data) ==
    IF data.has_content /\ TruthySeq(data.content)
    THEN <<[chunk |-> data.content, done |-> FALSE]>>
    ELSE <<>>

\* The body of `for (const line of lines)`: st is the consumer's local state,
\* its conversationId and the onChunk calls it has made.
ProcessLine(st, line) ==
    IF StartsWithData(line)
    THEN LET data == JSONParse(Slice6(line))
         IN  IF data.ok
             THEN [conversationId |-> RecordId(st.conversationId, data),
                   calls |-> st.calls \o ContentCalls(data)]
             ELSE st
    ELSE st

RECURSIVE ProcessLines(_, _)
ProcessLines(st, lines) ==
    IF lines = <<>> THEN st
    ELSE ProcessLines(ProcessLine(st, Head(lines)), Tail(lines))

\* One iteration of the read loop on a chunk of decoded text.
ProcessChunk(st, chunk) == ProcessLines(st, SplitNL(chunk))

\* ---------------------------------------------------------------- store (chat state)
SetIsGenerating(generating) == generating
SetStreamingContent(content) == content
AppendStreamingContent(state, content) == state \o content
SetActiveConversation(uuid) == uuid

\* The chunk callback handleSendMessage passes to sendMessageStream
OnChunk(buffer, chunk, done) ==
    IF ~done THEN AppendStreamingContent(buffer, chunk) ELSE buffer

RECURSIVE ApplyCalls(_, _)
ApplyCalls(buffer, calls) ==
    IF calls = <<>> THEN buffer
    ELSE ApplyCalls(OnChunk(buffer, Head(calls).chunk, Head(calls).done), Tail(calls))

\* ---------------------------------------------------------------- inputs
\* The lines a backend response is made of, as bytes
LineA       == <<"P", "{", "c:", "A", "}">>         \* data: {"content":"A"}
LineB       == <<"P", "{", "c:", "B", "}">>         \* data: {"content":"B"}
LineM       == <<"P", "{", "c:", "m1", "m2", "}">>  \* content is a two-byte character
LineNoText  == <<"P", "{", "c:", "}">>              \* data: {"content":""}
LineIdAbc   == <<"P", "{", "i=abc", "}">>           \* data: {"conversation_id":"abc"}
LineIdXyz   == <<"P", "{", "i=xyz", "}">>           \* data: {"conversation_id":"xyz"}
LineIdEmpty == <<"P", "{", "i=", "}">>              \* data: {"conversation_id":""}
LineJunk    == <<"J">>                              \* a line without the prefix
LineBad     == <<"P", "{", "c:", "A">>              \* data: {"content":"A   (no JSON)

LineSet == {LineA, LineM, LineNoText, LineIdAbc, LineIdEmpty, LineJunk, LineBad}

RECURSIVE LineSeqs(_)
LineSeqs(n) ==
    IF n = 0 THEN {<<>>}
    ELSE LET shorter == LineSeqs(n - 1)
         IN  shorter \cup {Append(ls, l) : ls \in {x \in shorter : Len(x) = n - 1}, l \in LineSet}

\* The bytes of a response whose lines are ls, each line ended by a newline
RECURSIVE BodyOf(_)
BodyOf(ls) == IF ls = <<>> THEN <<>> ELSE Head(ls) \o <<"NL">> \o BodyOf(Tail(ls))

\* The responses the stream consumer is checked on: every sequence of lines
Bodies == {BodyOf(ls) : ls \in LineSeqs(MaxLines)}

\* The responses the orchestrator is checked on
ChatBodies ==
    {BodyOf(ls) : ls \in {<<>>, <<LineA, LineM>>, <<LineIdAbc, LineA, LineB>>,
                          <<LineIdEmpty, LineNoText>>, <<LineIdAbc, LineIdXyz>>}}

RECURSIVE CharSeqs(_)
CharSeqs(n) ==
    IF n = 0 THEN {<<>>}
    ELSE LET shorter == CharSeqs(n - 1)
         IN  shorter \cup {Append(cs, c) : cs \in {x \in shorter : Len(x) = n - 1}, c \in {" ", "h"}}

Inputs == CharSeqs(MaxInput)   \* what the user may have typed
Uuids == {"c1"}                \* conversations of the sidebar
PostIds == {"abc"}             \* conversation_id of a /chat/completions response

\* ---------------------------------------------------------------- handleSendMessage
\* Chat.handleSubmit: if (!input.trim() || isGenerating) return
SubmitRejected(input, generating) == Trim(input) = <<>> \/ generating

\* Mutant of SendRejected: the guard forgets isGenerating
SendRejectedOnlyBlank(content, generating) == Trim(content) = <<>>

\* Mutant of SendRejected: the guard forgets the blank content
SendRejectedOnlyBusy(content, generating) == generating

\* App.handleSendMessage: if (!content.trim() || isGenerating) return
SendRejected(content, generating) == Trim(content) = <<>> \/ generating

\* Mutant of NewSend: the streaming endpoint is requested whatever the setting
NewSendAlwaysStreams(streaming, captured) ==
    [pc |-> "fetch", streaming |-> streaming, captured |-> captured, body |-> <<>>,
     pos |-> 0, pending |-> <<>>, splitChar |-> FALSE, conversationId |-> "",
     calls |-> <<>>]

\* A call of handleSendMessage suspended at its first await
NewSend(streaming, captured) ==
    [pc |-> IF streaming THEN "fetch" ELSE "post",
     streaming |-> streaming,
     captured |-> captured,        \* activeConversationId of the closure
     body |-> <<>>,                \* the bytes the response body will deliver
     pos |-> 0,                    \* how many of them have been read
     pending |-> <<>>,             \* the decoder's held-back bytes
     splitChar |-> FALSE,          \* some read has ended inside a character
     conversationId |-> "",        \* let conversationId = ''
     calls |-> <<>>]               \* the onChunk calls made so far

Remove(q, i) == SubSeq(q, 1, i - 1) \o SubSeq(q, i + 1, Len(q))

\* A call of handleSubmit / handleSendMessage, with the isGenerating it found
Attempt(name, content) ==
    [op |-> "attempt", via |-> name, gen |-> isGenerating, blank |-> Trim(content) = <<>>]

Other == [op |-> "other"]     \* a step of the network inside a send
User == [op |-> "user"]       \* a step of the user that is no send

\* Mutant of Adopt: the test reads the store's current activeConversationId
AdoptIfNoneActiveNow(captured, current, id) ==
    IF ~Truthy(current) THEN SetActiveConversation(id) ELSE current

\* Mutant of Adopt: the returned identifier is adopted unconditionally
AdoptAlways(captured, current, id) == SetActiveConversation(id)

\* if (!activeConversationId) setActiveConversation(id), with the
\* activeConversationId of the closure
Adopt(captured, current, id) ==
    IF ~Truthy(captured) THEN SetActiveConversation(id) ELSE current

\* Mutant of Invalidations: the conversation list is invalidated in the branch
\* and again after it
InvalidationsRepeated(captured) ==
    << <<"conversations">>, <<"conversation", captured>>, <<"conversations">> >>

\* The two invalidateQueries calls after a successful send
Invalidations(captured) == << <<"conversation", captured>>, <<"conversations">> >>

\* Mutant of SendCall: the buffer is cleared before the guard is tested
SendCallClearsFirst(content, name) ==
    /\ UNCHANGED dataVars
    /\ UNCHANGED debounceVars
    /\ event' = Attempt(name, content)
    /\ streamingContent' = SetStreamingContent(<<>>)
    /\ IF SendRejected(content, isGenerating)
       THEN UNCHANGED <<isGenerating, activeConversationId, settings, inflight>>
       ELSE /\ Len(inflight) < MaxInFlight
            /\ isGenerating' = SetIsGenerating(TRUE)
            /\ inflight' = Append(inflight,
                                  NewSend(settings.streamResponses, activeConversationId))
            /\ UNCHANGED <<activeConversationId, settings>>

\* Mutant of SendCall: a send attempted while another is in flight gives the
\* earlier one up and issues its own request
SendCallAbortsPrevious(content, name) ==
    /\ UNCHANGED dataVars
    /\ UNCHANGED debounceVars
    /\ event' = Attempt(name, content)
    /\ IF Trim(content) = <<>>
       THEN UNCHANGED <<isGenerating, streamingContent, activeConversationId,
                        settings, inflight>>
       ELSE /\ isGenerating' = SetIsGenerating(TRUE)
            /\ streamingContent' = SetStreamingContent(<<>>)
            /\ inflight' = <<NewSend(settings.streamResponses, activeConversationId)>>
            /\ UNCHANGED <<activeConversationId, settings>>

\* handleSendMessage from its guard to its first await.  (The closure's
\* isGenerating, activeConversationId and settings are those of the store: the
\* store's subscribers re-render before the next event is handled.)
SendCall(content, name) ==
    /\ UNCHANGED dataVars
    /\ UNCHANGED debounceVars
    /\ event' = Attempt(name, content)
    /\ IF SendRejected(content, isGenerating)
       THEN UNCHANGED <<isGenerating, streamingContent, activeConversationId,
                        settings, inflight>>
       ELSE /\ Len(inflight) < MaxInFlight
            /\ isGenerating' = SetIsGenerating(TRUE)
            /\ streamingContent' = SetStreamingContent(<<>>)
            /\ inflight' = Append(inflight,
                                  NewSend(settings.streamResponses, activeConversationId))
            /\ UNCHANGED <<activeConversationId, settings>>

HandleSendMessage(content) == SendCall(content, "send")

\* Mutant of HandleSubmit: the Stop control aborts the request in flight
HandleSubmitStops(input) ==
    IF isGenerating
    THEN /\ UNCHANGED debounceVars
         /\ event' = Attempt("submit", input)
         /\ isGenerating' = SetIsGenerating(FALSE)
         /\ streamingContent' = SetStreamingContent(<<>>)
         /\ inflight' = <<>>
         /\ UNCHANGED dataVars
         /\ UNCHANGED <<activeConversationId, settings>>
    ELSE IF Trim(input) = <<>>
    THEN /\ UNCHANGED debounceVars
         /\ event' = Attempt("submit", input)
         /\ UNCHANGED dataVars
         /\ UNCHANGED <<isGenerating, streamingContent, activeConversationId,
                        settings, inflight>>
    ELSE SendCall(Trim(input), "submit")

HandleSubmit(input) ==
    IF SubmitRejected(input, isGenerating)
    THEN /\ UNCHANGED debounceVars
         /\ event' = Attempt("submit", input)
         /\ UNCHANGED dataVars
         /\ UNCHANGED <<isGenerating, streamingContent, activeConversationId,
                        settings, inflight>>
    ELSE SendCall(Trim(input), "submit")

\* Mutant of Succeed: the client builds the assistant's message from the
\* streamed text and appends it to the message list of the conversation
SucceedCommitsStream(i, calls, id) ==
    LET s == inflight[i]
        active == Adopt(s.captured, activeConversationId, id)
        built == [id |-> "", role |-> "assistant", content |-> streamingContent]
    IN  /\ activeConversationId' = active
        /\ isGenerating' = SetIsGenerating(FALSE)
        /\ streamingContent' = SetStreamingContent(<<>>)
        /\ inflight' = Remove(inflight, i)
        /\ conversationQueries' =
               [uuid \in DOMAIN conversationQueries |->
                   IF uuid = active
                   THEN [present |-> TRUE,
                         messages |-> Append(conversationQueries[uuid].messages, built)]
                   ELSE conversationQueries[uuid]]
        /\ UNCHANGED <<conversations, modelsData, models>>
        /\ UNCHANGED debounceVars
        /\ event' = [op |-> "resolved", outcome |-> "ok", failure |-> "none",
                     streaming |-> s.streaming, captured |-> s.captured,
                     before |-> activeConversationId, body |-> s.body, pos |-> s.pos,
                     splitChar |-> s.splitChar,
                     calls |-> calls, result |-> id, toasts |-> 0,
                     invalidated |-> Invalidations(s.captured)]
        /\ UNCHANGED settings

\* The rest of handleSendMessage once the awaited call returned id: adopt the
\* identifier, invalidate the queries, then the finally block.
Succeed(i, calls, id) ==
    LET s == inflight[i]
    IN  /\ activeConversationId' = Adopt(s.captured, activeConversationId, id)
        /\ isGenerating' = SetIsGenerating(FALSE)
        /\ streamingContent' = SetStreamingContent(<<>>)
        /\ inflight' = Remove(inflight, i)
        /\ UNCHANGED dataVars
        /\ UNCHANGED debounceVars
        /\ event' = [op |-> "resolved", outcome |-> "ok", failure |-> "none",
                     streaming |-> s.streaming, captured |-> s.captured,
                     before |-> activeConversationId, body |-> s.body, pos |-> s.pos,
                     splitChar |-> s.splitChar,
                     calls |-> calls, result |-> id, toasts |-> 0,
                     invalidated |-> Invalidations(s.captured)]
        /\ UNCHANGED settings

\* Mutant of Fail: the clean-up is done on the success path only
FailWithoutFinally(i, why) ==
    LET s == inflight[i]
    IN  /\ inflight' = Remove(inflight, i)
        /\ UNCHANGED dataVars
        /\ UNCHANGED debounceVars
        /\ event' = [op |-> "resolved", outcome |-> "error", failure |-> why,
                     streaming |-> s.streaming, captured |-> s.captured,
                     before |-> activeConversationId, body |-> s.body, pos |-> s.pos,
                     splitChar |-> s.splitChar,
                     calls |-> s.calls, result |-> Null, toasts |-> 1,
                     invalidated |-> <<>>]
        /\ UNCHANGED <<isGenerating, streamingContent, activeConversationId, settings>>

\* Mutant of Fail: the text streamed so far is committed as a message of the
\* conversation the send started with
FailCommitsPartial(i, why) ==
    LET s == inflight[i]
        partial == [id |-> "", role |-> "assistant", content |-> streamingContent]
    IN  /\ isGenerating' = SetIsGenerating(FALSE)
        /\ streamingContent' = SetStreamingContent(<<>>)
        /\ inflight' = Remove(inflight, i)
        /\ conversationQueries' =
               [uuid \in DOMAIN conversationQueries |->
                   IF uuid = s.captured
                   THEN [present |-> TRUE,
                         messages |-> Append(conversationQueries[uuid].messages, partial)]
                   ELSE conversationQueries[uuid]]
        /\ UNCHANGED <<conversations, modelsData, models>>
        /\ UNCHANGED debounceVars
        /\ event' = [op |-> "resolved", outcome |-> "error", failure |-> why,
                     streaming |-> s.streaming, captured |-> s.captured,
                     before |-> activeConversationId, body |-> s.body, pos |-> s.pos,
                     splitChar |-> s.splitChar,
                     calls |-> s.calls, result |-> Null, toasts |-> 1,
                     invalidated |-> <<>>]
        /\ UNCHANGED <<activeConversationId, settings>>

\* Mutant of Fail: the queries are invalidated after the try statement
FailInvalidates(i, why) ==
    LET s == inflight[i]
    IN  /\ isGenerating' = SetIsGenerating(FALSE)
        /\ streamingContent' = SetStreamingContent(<<>>)
        /\ inflight' = Remove(inflight, i)
        /\ UNCHANGED dataVars
        /\ UNCHANGED debounceVars
        /\ event' = [op |-> "resolved", outcome |-> "error", failure |-> why,
                     streaming |-> s.streaming, captured |-> s.captured,
                     before |-> activeConversationId, body |-> s.body, pos |-> s.pos,
                     splitChar |-> s.splitChar,
                     calls |-> s.calls, result |-> Null, toasts |-> 1,
                     invalidated |-> Invalidations(s.captured)]
        /\ UNCHANGED <<activeConversationId, settings>>

\* The awaited call rejected: the catch block, then the finally block.
Fail(i, why) ==
    LET s == inflight[i]
    IN  /\ isGenerating' = SetIsGenerating(FALSE)
        /\ streamingContent' = SetStreamingContent(<<>>)
        /\ inflight' = Remove(inflight, i)
        /\ UNCHANGED dataVars
        /\ UNCHANGED debounceVars
        /\ event' = [op |-> "resolved", outcome |-> "error", failure |-> why,
                     streaming |-> s.streaming, captured |-> s.captured,
                     before |-> activeConversationId, body |-> s.body, pos |-> s.pos,
                     splitChar |-> s.splitChar,
                     calls |-> s.calls, result |-> Null, toasts |-> 1,
                     invalidated |-> <<>>]
        /\ UNCHANGED <<activeConversationId, settings>>

\* ---------------------------------------------------------------- network events
\* fetch rejects: the connection could not be opened
FetchFails(i) ==
    /\ inflight[i].pc = "fetch"
    /\ Fail(i, "connect")

\* fetch resolves with a response whose status is no success
FetchStatusError(i) ==
    /\ inflight[i].pc = "fetch"
    /\ Fail(i, "status")

\* fetch resolves with a response that has no body
FetchNoBody(i) ==
    /\ inflight[i].pc = "fetch"
    /\ Fail(i, "nobody")

\* fetch resolves with a readable response; the first reader.read() is awaited
FetchOk(i, body) ==
    /\ inflight[i].pc = "fetch"
    /\ inflight' = [inflight EXCEPT ![i].pc = "read", ![i].body = body]
    /\ UNCHANGED dataVars
    /\ UNCHANGED debounceVars
    /\ event' = Other
    /\ UNCHANGED <<isGenerating, streamingContent, activeConversationId, settings>>

\* reader.read() resolves with the next k bytes
ReadChunk(i, k) ==
    LET s  == inflight[i]
        d  == Decode(s.pending, SubSeq(s.body, s.pos + 1, s.pos + k))
        st == ProcessChunk([conversationId |-> s.conversationId, calls |-> s.calls],
                           d.text)
    IN  /\ s.pc = "read"
        /\ k \in 1..(Len(s.body) - s.pos)
        /\ inflight' = [inflight EXCEPT ![i].pos = s.pos + k,
                                        ![i].pending = d.pending,
                                        ![i].splitChar = s.splitChar \/ d.pending # <<>>,
                                        ![i].conversationId = st.conversationId,
                                        ![i].calls = st.calls]
        /\ streamingContent' =
               ApplyCalls(streamingContent,
                          SubSeq(st.calls, Len(s.calls) + 1, Len(st.calls)))
        /\ UNCHANGED dataVars
        /\ UNCHANGED debounceVars
        /\ event' = Other
        /\ UNCHANGED <<isGenerating, activeConversationId, settings>>

\* Mutant of ReadDone: the loop goes on reading after done was reported
ReadDoneKeepsReading(i) ==
    /\ inflight[i].pc = "read"
    /\ inflight[i].pos = Len(inflight[i].body)
    /\ UNCHANGED debounceVars
    /\ event' = Other
    /\ UNCHANGED dataVars
    /\ UNCHANGED <<isGenerating, streamingContent, activeConversationId, settings,
                   inflight>>

\* Mutant of ReadDone: the loop is left without the final callback
ReadDoneWithoutFinal(i) ==
    /\ inflight[i].pc = "read"
    /\ inflight[i].pos = Len(inflight[i].body)
    /\ Succeed(i, inflight[i].calls, inflight[i].conversationId)

\* reader.read() resolves with done: the final callback, the return, and the
\* rest of handleSendMessage
ReadDone(i) ==
    LET s == inflight[i]
        final == <<[chunk |-> <<>>, done |-> TRUE]>>
    IN  /\ s.pc = "read"
        /\ s.pos = Len(s.body)
        /\ Succeed(i, s.calls \o final, s.conversationId)

\* Mutant of ReadFails: a failed read is taken for the end of the stream
ReadFailsTakenAsDone(i) ==
    /\ inflight[i].pc = "read"
    /\ Succeed(i, inflight[i].calls \o <<[chunk |-> <<>>, done |-> TRUE]>>,
               inflight[i].conversationId)

\* reader.read() rejects
ReadFails(i) ==
    /\ inflight[i].pc = "read"
    /\ Fail(i, "read")

\* the non-streaming request resolves
PostOk(i, id) ==
    /\ inflight[i].pc = "post"
    /\ Succeed(i, inflight[i].calls, id)

\* the non-streaming request rejects
PostFails(i) ==
    /\ inflight[i].pc = "post"
    /\ Fail(i, "post")

\* ---------------------------------------------------------------- other user actions
\* Mutant of HandleSelectConversation: switching conversation resets the buffer
HandleSelectConversationClears(uuid) ==
    /\ activeConversationId' = SetActiveConversation(uuid)
    /\ streamingContent' = SetStreamingContent(<<>>)
    /\ UNCHANGED dataVars
    /\ UNCHANGED debounceVars
    /\ event' = User
    /\ UNCHANGED <<isGenerating, settings, inflight>>

HandleSelectConversation(uuid) ==
    /\ activeConversationId' = SetActiveConversation(uuid)
    /\ UNCHANGED dataVars
    /\ UNCHANGED debounceVars
    /\ event' = User
    /\ UNCHANGED <<isGenerating, streamingContent, settings, inflight>>

\* ---------------------------------------------------------------- settings
\* temperature and topP are counted in tenths (0.7 is 7, 0.9 is 9)
defaultSettings ==
    [defaultModel |-> "dolphin-mistral", temperature |-> 7, topP |-> 9, topK |-> 40,
     maxTokens |-> 2048, streamResponses |-> TRUE, theme |-> "dark", autoSave |-> TRUE]

\* Mutant of MergeSettings: the new values are spread over the defaults
MergeOverDefaults(state, newSettings) ==
    [f \in DOMAIN state |->
        IF f \in DOMAIN newSettings THEN newSettings[f] ELSE defaultSettings[f]]

\* { ...state.settings, ...newSettings }
MergeSettings(state, newSettings) ==
    [f \in DOMAIN state |->
        IF f \in DOMAIN newSettings THEN newSettings[f] ELSE state[f]]

\* updateSettings, called by a control of the settings panel
UpdateSettings(newSettings) ==
    /\ settings' = MergeSettings(settings, newSettings)
    /\ UNCHANGED dataVars
    /\ UNCHANGED debounceVars
    /\ event' = User
    /\ UNCHANGED <<isGenerating, streamingContent, activeConversationId, inflight>>

\* What Reset to Defaults passes to updateSettings
ResetValues ==
    [temperature |-> 7, topP |-> 9, topK |-> 40, maxTokens |-> 2048,
     streamResponses |-> TRUE, autoSave |-> TRUE]

\* Settings.handleReset: updateSettings({...}), then toast.success
HandleReset ==
    /\ settings' = MergeSettings(settings, ResetValues)
    /\ UNCHANGED dataVars
    /\ UNCHANGED debounceVars
    /\ event' = [op |-> "reset", toasts |-> 1]
    /\ UNCHANGED <<isGenerating, streamingContent, activeConversationId, inflight>>

\* The values the controls of the settings panel can give a field
FieldValues ==
    [defaultModel |-> {"dolphin-mistral", "llama3"}, temperature |-> {7, 10},
     topP |-> {9, 5}, topK |-> {40, 10}, maxTokens |-> {2048, 512},
     streamResponses |-> BOOLEAN, theme |-> {"dark", "light"}, autoSave |-> BOOLEAN]

\* A control of the panel changed its field: onUpdate({ field: value })
UpdateField(f, v) == UpdateSettings([g \in {f} |-> v])

\* ---------------------------------------------------------------- debounce
\* The closure's timeout when it holds null; timer ids are positive, so both
\* fail the test if (timeout)
NoTimeout == 0

\* The arguments the debounced function is called with
Args == {"a", "b"}

\* clearTimeout(id): the timer is no longer pending, its callback never runs
ClearTimeout(pending, id) == {t \in pending : t.id # id}

\* setTimeout(later, wait), where later closes over args; the id is nextTimer
SetTimeout(pending, id, args) == pending \cup {[id |-> id, args |-> args]}

\* Everything the store and the queries hold
appVars == <<isGenerating, streamingContent, activeConversationId, settings,
             inflight, conversations, conversationQueries, modelsData, models>>

\* Mutant of ExecutedFunction: the pending timer is not cleared
ExecutedFunctionKeepsTimer(args) ==
    /\ nextTimer <= MaxTimers
    /\ timers' = SetTimeout(timers, nextTimer, args)
    /\ timeout' = nextTimer
    /\ nextTimer' = nextTimer + 1
    /\ burst' = Append(burst, args)
    /\ event' = [op |-> "called"]
    /\ UNCHANGED invoked
    /\ UNCHANGED appVars

\* executedFunction(...args): if (timeout) clearTimeout(timeout);
\* timeout = setTimeout(later, wait)
ExecutedFunction(args) ==
    /\ nextTimer <= MaxTimers
    /\ timers' = SetTimeout(IF timeout # NoTimeout THEN ClearTimeout(timers, timeout)
                                                    ELSE timers,
                            nextTimer, args)
    /\ timeout' = nextTimer
    /\ nextTimer' = nextTimer + 1
    /\ burst' = Append(burst, args)
    /\ event' = [op |-> "called"]
    /\ UNCHANGED invoked
    /\ UNCHANGED appVars

\* A pending timer fires and runs its later(): timeout = null; func(...args)
Later(t) ==
    /\ t \in timers
    /\ timers' = timers \ {t}
    /\ timeout' = NoTimeout
    /\ invoked' = Append(invoked, t.args)
    /\ burst' = <<>>
    /\ event' = [op |-> "fired", calls |-> burst]
    /\ UNCHANGED nextTimer
    /\ UNCHANGED appVars

\* ---------------------------------------------------------------- queries
\* What the backend may hold as the messages of a conversation
BackendMessages ==
    << [id |-> "m1", role |-> "user", content |-> <<"h">>],
       [id |-> "m2", role |-> "assistant", content |-> <<"A", "B">>] >>

MessageLists == {<<>>, BackendMessages}

\* The conversations the sidebar can show and a send can create
ConversationKeys == Uuids \cup PostIds

\* A query without data (not fetched yet, or getConversation returned null)
NoData == [present |-> FALSE, messages |-> <<>>]

\* What getConversation can resolve with: the conversation the backend holds,
\* or null when the request failed
ConversationResults ==
    {NoData} \cup {[present |-> TRUE, messages |-> ms] : ms \in MessageLists}

\* What getConversations can resolve with: the backend's list, [] on a failure
ConversationLists == {<<>>, <<"c1">>, <<"abc", "c1">>}

SetConversations(list) == list

\* const { data: activeConversation } = useQuery(['conversation', activeConversationId])
ActiveConversation ==
    IF Truthy(activeConversationId) /\ activeConversationId \in DOMAIN conversationQueries
    THEN conversationQueries[activeConversationId]
    ELSE NoData

\* const messages = activeConversation?.messages || []
Messages == ActiveConversation.messages

\* The query ['conversations'] resolved (first fetch, 30 s poll or after an
\* invalidation); the effect stores its data
ConversationsFetched(data) ==
    /\ conversations' = SetConversations(data)
    /\ UNCHANGED debounceVars
    /\ event' = [op |-> "fetched", key |-> <<"conversations">>]
    /\ UNCHANGED <<isGenerating, streamingContent, activeConversationId, settings,
                   inflight, conversationQueries, modelsData, models>>

\* The query of the active conversation resolved; it is enabled only when
\* activeConversationId is truthy
ConversationFetched(data) ==
    /\ Truthy(activeConversationId)
    /\ activeConversationId \in DOMAIN conversationQueries
    /\ conversationQueries' = [conversationQueries EXCEPT ![activeConversationId] = data]
    /\ UNCHANGED debounceVars
    /\ event' = [op |-> "fetched", key |-> <<"conversation", activeConversationId>>]
    /\ UNCHANGED <<isGenerating, streamingContent, activeConversationId, settings,
                   inflight, conversations, modelsData, models>>

\* ---------------------------------------------------------------- sidebar mutations
\* The uuid the backend gives a conversation made by New Chat
NewUuids == {"n1"}

\* The conversations of the list, as a set
Listed == {conversations[j] : j \in DOMAIN conversations}

\* addConversation: [conversation, ...state.conversations]
AddConversation(list, conversation) == <<conversation>> \o list

\* removeConversation: state.conversations.filter((c) => c.uuid !== uuid)
RemoveConversation(list, uuid) == SelectSeq(list, LAMBDA c : c # uuid)

\* createConversationMutation.onSuccess, the backend having made uuid
CreateConversationOk(uuid) ==
    /\ Len(conversations) < MaxConversations
    /\ conversations' = AddConversation(conversations, uuid)
    /\ activeConversationId' = SetActiveConversation(uuid)
    /\ UNCHANGED debounceVars
    /\ event' = [op |-> "created", ok |-> TRUE, uuid |-> uuid, toasts |-> 1,
                 invalidated |-> << <<"conversations">> >>]
    /\ UNCHANGED <<isGenerating, streamingContent, settings, inflight,
                   conversationQueries, modelsData, models>>

\* createConversationMutation.onError
CreateConversationFails ==
    /\ UNCHANGED debounceVars
    /\ event' = [op |-> "created", ok |-> FALSE, uuid |-> Null, toasts |-> 1,
                 invalidated |-> <<>>]
    /\ UNCHANGED <<isGenerating, streamingContent, activeConversationId, settings,
                   inflight>>
    /\ UNCHANGED dataVars

\* Mutant of DeleteConversationOk: the active conversation is left selected
DeleteConversationKeepsActive(uuid) ==
    /\ uuid \in Listed
    /\ conversations' = RemoveConversation(conversations, uuid)
    /\ UNCHANGED debounceVars
    /\ event' = [op |-> "deleted", ok |-> TRUE, uuid |-> uuid, toasts |-> 1,
                 invalidated |-> << <<"conversations">> >>]
    /\ UNCHANGED <<isGenerating, streamingContent, activeConversationId, settings,
                   inflight, conversationQueries, modelsData, models>>

\* deleteConversationMutation.onSuccess for a conversation of the sidebar
\* (the callback is the one of the latest render: it tests the current
\* activeConversationId)
DeleteConversationOk(uuid) ==
    /\ uuid \in Listed
    /\ conversations' = RemoveConversation(conversations, uuid)
    /\ activeConversationId' =
           IF activeConversationId = uuid THEN SetActiveConversation(Null)
           ELSE activeConversationId
    /\ UNCHANGED debounceVars
    /\ event' = [op |-> "deleted", ok |-> TRUE, uuid |-> uuid, toasts |-> 1,
                 invalidated |-> << <<"conversations">> >>]
    /\ UNCHANGED <<isGenerating, streamingContent, settings, inflight,
                   conversationQueries, modelsData, models>>

\* deleteConversationMutation.onError
DeleteConversationFails(uuid) ==
    /\ uuid \in Listed
    /\ UNCHANGED debounceVars
    /\ event' = [op |-> "deleted", ok |-> FALSE, uuid |-> uuid, toasts |-> 1,
                 invalidated |-> <<>>]
    /\ UNCHANGED <<isGenerating, streamingContent, activeConversationId, settings,
                   inflight>>
    /\ UNCHANGED dataVars

\* The sidebar offers the conversations of the list
SelectListed(uuid) == uuid \in Listed /\ HandleSelectConversation(uuid)

\* ---------------------------------------------------------------- models
\* An entry of ModelsResponse.models as the backend may send it: a string, an
\* object with a name, or an object without one (name is undefined)
ModelNames == {"dolphin-mistral", "llama3"}

ModelEntries ==
    {[type |-> "string", value |-> n, name |-> Null] : n \in ModelNames}
    \cup {[type |-> "object", value |-> Null, name |-> n] : n \in ModelNames \cup {Null}}

RECURSIVE EntrySeqs(_)
EntrySeqs(n) ==
    IF n = 0 THEN {<<>>}
    ELSE LET shorter == EntrySeqs(n - 1)
         IN  shorter \cup {Append(es, e) : es \in {x \in shorter : Len(x) = n - 1},
                                            e \in ModelEntries}

\* Data of the query ['models'] without a models member (or not fetched yet)
NoModels == [present |-> FALSE, models |-> <<>>]

\* What getModels can resolve with
ModelsResponses == {NoModels} \cup {[present |-> TRUE, models |-> es] : es \in EntrySeqs(MaxModels)}

\* Mutant of ModelName: every entry is taken for an object
ModelNameOfObject(m) == m.name

\* typeof m === 'string' ? m : m.name
ModelName(m) == IF m.type = "string" THEN m.value ELSE m.name

SetModels(list) == list

\* The query ['models'] resolved with data; the effect normalises the entries
\* and stores the names: if (modelsData?.models) setModels(models.map(...))
ModelsFetched(data) ==
    /\ modelsData' = data
    /\ models' = IF data.present
                 THEN SetModels([j \in 1..Len(data.models) |-> ModelName(data.models[j])])
                 ELSE models
    /\ UNCHANGED debounceVars
    /\ event' = [op |-> "models"]
    /\ UNCHANGED <<isGenerating, streamingContent, activeConversationId, settings,
                   inflight, conversations, conversationQueries>>

\* ---------------------------------------------------------------- api wrappers
\* What the HTTP client does with a request: it fails (no connection, a
\* status that is no success), or it succeeds with the response's data
Failure == [ok |-> FALSE, data |-> Null]
Success(data) == [ok |-> TRUE, data |-> data]

\* How an async wrapper settles
Resolve(value) == [rejected |-> FALSE, value |-> value]
Reject == [rejected |-> TRUE, value |-> Null]

\* A list member of a response body, which may be missing from it
Member(list) == [has |-> TRUE, list |-> list]
Missing == [has |-> FALSE, list |-> <<>>]

\* Mutant of GetModels: the failure is rethrown
GetModelsRethrows(o) == IF o.ok THEN Resolve(o.data) ELSE Reject

\* return response.data.conversations || [] ; catch: return []
GetConversations(o) ==
    IF o.ok THEN Resolve(IF o.data.has THEN o.data.list ELSE <<>>) ELSE Resolve(<<>>)

\* return response.data ; catch: return null
GetConversation(o) == IF o.ok THEN Resolve(o.data) ELSE Resolve(NoData)

\* return response.data.prompts || [] ; catch: return []
GetSystemPrompts(o) ==
    IF o.ok THEN Resolve(IF o.data.has THEN o.data.list ELSE <<>>) ELSE Resolve(<<>>)

\* catch: return { models: [{ name: 'dolphin-mistral' }] }
FallbackModels ==
    [present |-> TRUE,
     models |-> <<[type |-> "object", value |-> Null, name |-> "dolphin-mistral"]>>]

\* return response.data ; catch: return the fallback
GetModels(o) == IF o.ok THEN Resolve(o.data) ELSE Resolve(FallbackModels)

\* The counters of DashboardStats
ZeroStats ==
    [total_conversations |-> 0, total_messages |-> 0, total_tokens |-> 0,
     average_response_time |-> 0, conversations_today |-> 0, messages_today |-> 0,
     tokens_today |-> 0]

StatsSet ==
    {[ZeroStats EXCEPT !.total_conversations = c, !.total_messages = m,
                       !.conversations_today = t] :
        c \in 0..1, m \in 0..1, t \in 0..1}

\* return response.data ; catch: return the zero statistics
GetDashboardStats(o) == IF o.ok THEN Resolve(o.data) ELSE Resolve(ZeroStats)

\* return response.data ; catch: throw error
CreateConversation(o) == IF o.ok THEN Resolve(o.data) ELSE Reject

\* catch: throw error
DeleteConversation(o) == IF o.ok THEN Resolve(Null) ELSE Reject

\* A call of a wrapper settled: name, whether the request succeeded, and how
\* the wrapper settled
Called(name, o, result) ==
    /\ UNCHANGED debounceVars
    /\ event' = [op |-> "api", name |-> name, ok |-> o.ok, result |-> result]
    /\ UNCHANGED <<isGenerating, streamingContent, activeConversationId, settings,
                   inflight>>
    /\ UNCHANGED dataVars

CallGetConversations(o) == Called("getConversations", o, GetConversations(o))
CallGetConversation(o) == Called("getConversation", o, GetConversation(o))
CallGetSystemPrompts(o) == Called("getSystemPrompts", o, GetSystemPrompts(o))
CallGetModels(o) == Called("getModels", o, GetModels(o))
CallGetDashboardStats(o) == Called("getDashboardStats", o, GetDashboardStats(o))
CallCreateConversation(o) == Called("createConversation", o, CreateConversation(o))
CallDeleteConversation(o) == Called("deleteConversation", o, DeleteConversation(o))

\* The outcomes of a request whose successful responses carry data from ds
Outcomes(ds) == {Failure} \cup {Success(d) : d \in ds}

\* ---------------------------------------------------------------- specification

Init ==
    /\ isGenerating = FALSE
    /\ streamingContent = <<>>
    /\ activeConversationId = Null
    /\ settings = defaultSettings
    /\ inflight = <<>>
    /\ event = [op |-> "init"]
    /\ conversations = <<>>
    /\ conversationQueries = [uuid \in ConversationKeys |-> NoData]
    /\ modelsData = NoModels
    /\ models = <<>>
    /\ timeout = NoTimeout
    /\ timers = {}
    /\ nextTimer = 1
    /\ invoked = <<>>
    /\ burst = <<>>

\* The application: the user and the network in any interleaving.  The form
\* calls handleSendMessage through handleSubmit; HandleSendMessage is the
\* callback itself, called with any text by whoever holds the onSendMessage
\* prop.
Next ==
    \/ \E input \in Inputs : HandleSubmit(input)
    \/ \E content \in Inputs : HandleSendMessage(content)
    \/ \E uuid \in Uuids : HandleSelectConversation(uuid)
    \/ \E b \in BOOLEAN : UpdateSettings([streamResponses |-> b])
    \/ \E i \in DOMAIN inflight : FetchFails(i)
    \/ \E i \in DOMAIN inflight : FetchStatusError(i)
    \/ \E i \in DOMAIN inflight : FetchNoBody(i)
    \/ \E i \in DOMAIN inflight : \E body \in ChatBodies : FetchOk(i, body)
    \/ \E i \in DOMAIN inflight : \E k \in 1..Len(inflight[i].body) : ReadChunk(i, k)
    \/ \E i \in DOMAIN inflight : ReadDone(i)
    \/ \E i \in DOMAIN inflight : ReadFails(i)
    \/ \E i \in DOMAIN inflight : \E id \in PostIds : PostOk(i, id)
    \/ \E i \in DOMAIN inflight : PostFails(i)

Spec == Init /\ [][Next]_vars

\* The stream consumer on every response: streamed sends of a new chat, typed
\* into the form, whose controls are disabled while isGenerating
NextStream ==
    \/ \E input \in Inputs : ~isGenerating /\ HandleSubmit(input)
    \/ \E i \in DOMAIN inflight : FetchFails(i)
    \/ \E i \in DOMAIN inflight : FetchStatusError(i)
    \/ \E i \in DOMAIN inflight : FetchNoBody(i)
    \/ \E i \in DOMAIN inflight : \E body \in Bodies : FetchOk(i, body)
    \/ \E i \in DOMAIN inflight : \E k \in 1..Len(inflight[i].body) : ReadChunk(i, k)
    \/ \E i \in DOMAIN inflight : ReadDone(i)
    \/ \E i \in DOMAIN inflight : ReadFails(i)

SpecStream == Init /\ [][NextStream]_vars

\* The responses the orchestrator is checked on together with the queries
DataBodies == {BodyOf(<<LineA, LineB>>)}

\* The orchestrator together with the queries that feed the sidebar and the
\* message list: sends typed into the form, the network, and the backend
\* answering the queries at any time
NextData ==
    \/ \E input \in Inputs : ~isGenerating /\ HandleSubmit(input)
    \/ \E uuid \in Uuids : HandleSelectConversation(uuid)
    \/ \E b \in BOOLEAN : UpdateSettings([streamResponses |-> b])
    \/ \E i \in DOMAIN inflight : FetchFails(i)
    \/ \E i \in DOMAIN inflight : \E body \in DataBodies : FetchOk(i, body)
    \/ \E i \in DOMAIN inflight : \E k \in 1..Len(inflight[i].body) : ReadChunk(i, k)
    \/ \E i \in DOMAIN inflight : ReadDone(i)
    \/ \E i \in DOMAIN inflight : ReadFails(i)
    \/ \E i \in DOMAIN inflight : \E id \in PostIds : PostOk(i, id)
    \/ \E i \in DOMAIN inflight : PostFails(i)
    \/ \E data \in ConversationLists : ConversationsFetched(data)
    \/ \E data \in ConversationResults : ConversationFetched(data)

SpecData == Init /\ [][NextData]_vars

\* The model list: the backend answering the query ['models']
NextModels == \E data \in ModelsResponses : ModelsFetched(data)

SpecModels == Init /\ [][NextModels]_vars

\* A step of the transport of a send in flight: the connection, a read or
\* the blocking request settles
Transport ==
    \/ \E i \in DOMAIN inflight : FetchFails(i)
    \/ \E i \in DOMAIN inflight : FetchStatusError(i)
    \/ \E i \in DOMAIN inflight : FetchNoBody(i)
    \/ \E i \in DOMAIN inflight : \E body \in DataBodies : FetchOk(i, body)
    \/ \E i \in DOMAIN inflight : \E k \in 1..Len(inflight[i].body) : ReadChunk(i, k)
    \/ \E i \in DOMAIN inflight : ReadDone(i)
    \/ \E i \in DOMAIN inflight : ReadFails(i)
    \/ \E i \in DOMAIN inflight : \E id \in PostIds : PostOk(i, id)
    \/ \E i \in DOMAIN inflight : PostFails(i)

\* Sends on either path with a transport that does not hang
NextLive ==
    \/ \E input \in Inputs : HandleSubmit(input)
    \/ \E uuid \in Uuids : HandleSelectConversation(uuid)
    \/ \E b \in BOOLEAN : UpdateSettings([streamResponses |-> b])
    \/ \E i \in DOMAIN inflight : FetchFails(i)
    \/ \E i \in DOMAIN inflight : FetchStatusError(i)
    \/ \E i \in DOMAIN inflight : FetchNoBody(i)
    \/ \E i \in DOMAIN inflight : \E body \in DataBodies : FetchOk(i, body)
    \/ \E i \in DOMAIN inflight : \E k \in 1..Len(inflight[i].body) : ReadChunk(i, k)
    \/ \E i \in DOMAIN inflight : ReadDone(i)
    \/ \E i \in DOMAIN inflight : ReadFails(i)
    \/ \E i \in DOMAIN inflight : \E id \in PostIds : PostOk(i, id)
    \/ \E i \in DOMAIN inflight : PostFails(i)

\* Every promise of the transport settles in the end, and the event loop
\* then runs the continuation that awaits it: a transport step that stays
\* possible is eventually taken.
SpecLive == Init /\ [][NextLive]_vars /\ WF_vars(Transport)

\* The responses the sidebar is checked with: one that names its
\* conversation and one that does not
SidebarBodies == {BodyOf(<<LineIdAbc>>), BodyOf(<<LineA>>)}

\* The sidebar: conversations made, selected and deleted while streamed
\* sends typed into the form come and go
NextSidebar ==
    \/ \E input \in Inputs : ~isGenerating /\ HandleSubmit(input)
    \/ \E uuid \in ConversationKeys \cup NewUuids : SelectListed(uuid)
    \/ \E uuid \in NewUuids : CreateConversationOk(uuid)
    \/ CreateConversationFails
    \/ \E uuid \in ConversationKeys \cup NewUuids : DeleteConversationOk(uuid)
    \/ \E uuid \in ConversationKeys \cup NewUuids : DeleteConversationFails(uuid)
    \/ \E data \in ConversationLists : ConversationsFetched(data)
    \/ \E i \in DOMAIN inflight : FetchFails(i)
    \/ \E i \in DOMAIN inflight : \E body \in SidebarBodies : FetchOk(i, body)
    \/ \E i \in DOMAIN inflight : \E k \in 1..Len(inflight[i].body) : ReadChunk(i, k)
    \/ \E i \in DOMAIN inflight : ReadDone(i)

SpecSidebar == Init /\ [][NextSidebar]_vars

\* The API client: every wrapper on every outcome of its request; the two
\* generation calls are made by sends, on either path
NextApi ==
    \/ \E o \in Outcomes({Missing} \cup {Member(l) : l \in ConversationLists}) :
           CallGetConversations(o)
    \/ \E o \in Outcomes(ConversationResults \ {NoData}) : CallGetConversation(o)
    \/ \E o \in Outcomes({Missing, Member(<<>>), Member(<<"p1">>)}) :
           CallGetSystemPrompts(o)
    \/ \E o \in Outcomes({NoModels, FallbackModels}) : CallGetModels(o)
    \/ \E o \in Outcomes(StatsSet) : CallGetDashboardStats(o)
    \/ \E o \in Outcomes(NewUuids) : CallCreateConversation(o)
    \/ \E o \in Outcomes({Null}) : CallDeleteConversation(o)
    \/ \E input \in Inputs : ~isGenerating /\ HandleSubmit(input)
    \/ \E b \in BOOLEAN : UpdateSettings([streamResponses |-> b])
    \/ \E i \in DOMAIN inflight : FetchFails(i)
    \/ \E i \in DOMAIN inflight : FetchStatusError(i)
    \/ \E i \in DOMAIN inflight : FetchNoBody(i)
    \/ \E i \in DOMAIN inflight : \E body \in DataBodies : FetchOk(i, body)
    \/ \E i \in DOMAIN inflight : \E k \in 1..Len(inflight[i].body) : ReadChunk(i, k)
    \/ \E i \in DOMAIN inflight : ReadDone(i)
    \/ \E i \in DOMAIN inflight : ReadFails(i)
    \/ \E i \in DOMAIN inflight : \E id \in PostIds : PostOk(i, id)
    \/ \E i \in DOMAIN inflight : PostFails(i)

SpecApi == Init /\ [][NextApi]_vars

\* The settings panel: any control changes its field, or Reset to Defaults,
\* before, during and after the sends typed into the form; the stream
\* endpoint refuses the connection, the blocking endpoint answers or fails
NextSettings ==
    \/ \E f \in DOMAIN FieldValues : \E v \in FieldValues[f] : UpdateField(f, v)
    \/ HandleReset
    \/ \E input \in Inputs : HandleSubmit(input)
    \/ \E i \in DOMAIN inflight : FetchFails(i)
    \/ \E i \in DOMAIN inflight : \E id \in PostIds : PostOk(i, id)
    \/ \E i \in DOMAIN inflight : PostFails(i)

SpecSettings == Init /\ [][NextSettings]_vars

\* One debounced function: calls and timers in any interleaving
NextDebounce ==
    \/ \E args \in Args : ExecutedFunction(args)
    \/ \E t \in timers : Later(t)

SpecDebounce == Init /\ [][NextDebounce]_vars

\* ================================================================ claims
Resolved == event.op = "resolved"
ResolvedOk == Resolved /\ event.outcome = "ok"
ResolvedError == Resolved /\ event.outcome = "error"
StreamReturned == ResolvedOk /\ event.streaming

\* The onChunk(_, false) calls among calls, and the texts they carried
NonFinal(calls) == SelectSeq(calls, LAMBDA c : ~c.done)
Chunks(calls) == [j \in 1..Len(calls) |-> calls[j].chunk]

RECURSIVE Concat(_)
Concat(ss) == IF ss = <<>> THEN <<>> ELSE Head(ss) \o Concat(Tail(ss))

\* The newline-delimited lines of a whole response, decoded
StreamLines(body) == SplitNL(DecodeBytes(body))

\* The content of a line of the response: non-empty when the line is a
\* `data: ` line whose JSON carries a non-empty content
LineContent(line) ==
    IF StartsWithData(line) /\ JSONParse(Slice6(line)).ok
    THEN JSONParse(Slice6(line)).content
    ELSE <<>>

\* The non-empty contents of the data lines of a response, in stream order
RECURSIVE StreamContents(_)
StreamContents(lines) ==
    IF lines = <<>> THEN <<>>
    ELSE (IF LineContent(Head(lines)) # <<>> THEN <<LineContent(Head(lines))>> ELSE <<>>)
         \o StreamContents(Tail(lines))

\* C1: in every reachable state at most one generation request issued by
\* handleSendMessage is in flight, and while one is in flight isGenerating is
\* true, so that no second send starts before the first has resolved.
C1_AtMostOneInFlight ==
    /\ Len(inflight) <= 1
    /\ inflight # <<>> => isGenerating

\* C1 witness: a send was attempted while another was in flight, and still
\* only that one request is in flight.
C1_Witness ==
    /\ event.op = "attempt" /\ event.gen /\ ~event.blank
    /\ Len(inflight) = 1

\* C2: after an accepted handleSendMessage resolved, on success or failure,
\* streaming or not, isGenerating is false and streamingContent is empty.
C2_ClearedAfterResolve ==
    Resolved => isGenerating = FALSE /\ streamingContent = <<>>

\* C2 witness: a streamed send failed at a read after chunks had been
\* appended to the buffer.
C2_Witness ==
    /\ ResolvedError /\ event.failure = "read"
    /\ NonFinal(event.calls) # <<>>
    /\ streamingContent = <<>>

\* C3: sendMessageStream calls onChunk('', true) only when the stream signals
\* end-of-data, exactly once, as its last callback, and returns only then:
\* a call still reading has made no final callback, and a call that returned
\* has read the whole body and made the final callback once, last.
C3_FinalCallbackOnceLast ==
    /\ \A i \in DOMAIN inflight :
          \A j \in 1..Len(inflight[i].calls) : ~inflight[i].calls[j].done
    /\ StreamReturned =>
          /\ event.pos = Len(event.body)
          /\ event.calls # <<>>
          /\ event.calls[Len(event.calls)] = [chunk |-> <<>>, done |-> TRUE]
          /\ \A j \in 1..(Len(event.calls) - 1) : ~event.calls[j].done

\* C3 witness: a stream that delivered two chunks and then ended.
C3_Witness ==
    /\ StreamReturned
    /\ Len(NonFinal(event.calls)) = 2
    /\ Len(event.calls) = 3

\* C4 (as claimed): when all bytes of a streamed response have been read and
\* the final callback is still to come, streamingContent is the concatenation
\* of the contents of the response's data lines, in order.
C4_BufferIsConcatenation ==
    \A i \in DOMAIN inflight :
        inflight[i].pc = "read" /\ inflight[i].pos = Len(inflight[i].body)
            => streamingContent = Concat(StreamContents(StreamLines(inflight[i].body)))

\* C5 (as claimed): sendMessageStream calls onChunk(content, false) exactly
\* once for each data line with a non-empty content, in stream order, and
\* never with empty text.
C5_OneCallPerContentLine ==
    StreamReturned =>
        /\ Chunks(NonFinal(event.calls)) = StreamContents(StreamLines(event.body))
        /\ \A j \in 1..Len(event.calls) :
              ~event.calls[j].done => event.calls[j].chunk # <<>>

\* C6 (as claimed): the onChunk(_, false) calls are those the consumer makes
\* when the whole response arrives in one read, wherever the transport puts
\* the read boundaries.
C6_ReadBoundariesDoNotMatter ==
    StreamReturned =>
        NonFinal(event.calls) =
            ProcessChunk([conversationId |-> "", calls |-> <<>>],
                         DecodeBytes(event.body)).calls

\* C7 (as claimed): a stream with conversation_id "abc" and then
\* conversation_id "" makes sendMessageStream return "".
C7_LastWriteWinsEvenEmpty ==
    StreamReturned /\ event.body = BodyOf(<<LineIdAbc, LineIdEmpty>>)
        => event.result = ""

\* C7 (amended): an empty conversation_id never overwrites the recorded
\* identifier: a read leaves the recorded identifier as it was or replaces it
\* by a non-empty one, and the call returns the identifier recorded last.
C7_EmptyIdNeverOverwrites ==
    [][\A i \in DOMAIN inflight :
          /\ Len(inflight') = Len(inflight) =>
                \/ inflight'[i].conversationId = inflight[i].conversationId
                \/ inflight'[i].conversationId # ""
          /\ (Len(inflight') < Len(inflight) /\ event'.op = "resolved"
                 /\ event'.outcome = "ok" /\ event'.streaming) =>
                event'.result = inflight[i].conversationId]_vars

\* C7 witness: the stream of the claim, read to its end: "abc" is returned.
C7_Witness ==
    /\ StreamReturned
    /\ event.body = BodyOf(<<LineIdAbc, LineIdEmpty>>)
    /\ event.result = "abc"

\* C8 (as claimed): a line without the prefix or a data line that is no JSON
\* causes no callback and does not abort the call: the valid data line that
\* follows it is still processed, and the call ends with the final callback.
C8_BadLinesAreSkipped ==
    \A bad \in {LineJunk, LineBad} : \A good \in {LineA, LineM} :
        StreamReturned /\ event.body = BodyOf(<<bad, good>>)
            => /\ Chunks(NonFinal(event.calls)) = <<LineContent(DecodeBytes(good))>>
               /\ event.calls[Len(event.calls)].done

\* C9: when the connection cannot be opened, the status is no success, the
\* body is unreadable or a read fails, sendMessageStream rejects: the caller
\* gets no identifier (it adopts none and raises its notification), no final
\* callback is made, and before the first read no callback is made at all.
\* A call that returns has read the whole body.
C9_FailureRejects ==
    /\ ResolvedError /\ event.streaming =>
          /\ event.result = Null
          /\ activeConversationId = event.before
          /\ event.toasts = 1
          /\ \A j \in 1..Len(event.calls) : ~event.calls[j].done
          /\ event.failure \in {"connect", "status", "nobody"} => event.calls = <<>>
    /\ StreamReturned => event.pos = Len(event.body) /\ event.toasts = 0

\* C9 witness: a read failed after a chunk had been delivered.
C9_Witness ==
    /\ ResolvedError /\ event.failure = "read"
    /\ event.calls # <<>>
    /\ event.pos < Len(event.body)

\* C10: a send attempted while isGenerating is true changes nothing: no
\* request is issued, and streamingContent, isGenerating and
\* activeConversationId stay as they are.
C10_SendWhileGeneratingIsNoOp ==
    [][event'.op = "attempt" /\ event'.gen =>
          UNCHANGED <<isGenerating, streamingContent, activeConversationId,
                      settings, inflight>>]_vars

\* C10 witness: a non-blank send was attempted while a generation with a
\* non-empty buffer was in flight, and the buffer is still there.
C10_Witness ==
    /\ event.op = "attempt" /\ event.gen /\ ~event.blank /\ event.via = "send"
    /\ streamingContent # <<>>
    /\ Len(inflight) = 1

\* C11: a send whose content is empty or only whitespace after trimming is
\* rejected locally: no request is issued, no failure is notified, and
\* isGenerating, streamingContent and activeConversationId stay as they were.
C11_BlankSendIsRejected ==
    [][(event'.op = "attempt" /\ event'.blank)
         => UNCHANGED <<isGenerating, streamingContent, activeConversationId, inflight>>]_vars

\* C11 witness: handleSendMessage was called with blank content while nothing
\* was being generated, and no request is in flight.
C11_Witness ==
    /\ event.op = "attempt" /\ event.blank /\ ~event.gen /\ event.via = "send"
    /\ inflight = <<>> /\ ~isGenerating

\* The query keys a resolved send passed to invalidateQueries
InvalidatedKeys == {event.invalidated[j] : j \in DOMAIN event.invalidated}

\* C12 as claimed: every accepted send, whatever its outcome, has requested a
\* refresh of a conversation's message list and of the conversation index
\* when it resolves.
C12_RefreshRegardlessOfOutcome ==
    Resolved => /\ <<"conversations">> \in InvalidatedKeys
                /\ \E key \in InvalidatedKeys : key[1] = "conversation"

\* C12: a send that succeeds, streamed or not, requests when it resolves a
\* refresh of the message list of the conversation it started with and then
\* of the conversation index; a send that fails requests no refresh.
C12_RefreshOnSuccessOnly ==
    /\ ResolvedOk
           => event.invalidated = << <<"conversation", event.captured>>, <<"conversations">> >>
    /\ ResolvedError => event.invalidated = <<>>

\* C12 witness: a non-streaming send into an active conversation failed and
\* resolved without any refresh request.
C12_Witness ==
    /\ ResolvedError /\ event.failure = "post" /\ Truthy(event.captured)
    /\ event.invalidated = <<>>

\* C13: when a send fails, streamed or not, exactly one failure notification
\* is raised, and no step of the send (its start, its reads, its failure) has
\* changed the conversation list, the message list or activeConversationId:
\* no message is built from the text streamed so far.
C13_FailureLeavesListsAsTheyWere ==
    [][/\ (event'.op = "resolved" /\ event'.outcome = "error") => event'.toasts = 1
       /\ (\/ event'.op \in {"attempt", "other"}
           \/ event'.op = "resolved" /\ event'.outcome = "error")
             => /\ UNCHANGED <<conversations, conversationQueries, activeConversationId>>
                /\ Messages' = Messages]_vars

\* C13 witness: a streamed send into a conversation whose messages are shown
\* failed at a read after text had been streamed.
C13_Witness ==
    /\ ResolvedError /\ event.failure = "read" /\ event.calls # <<>>
    /\ Truthy(event.captured) /\ event.captured = activeConversationId
    /\ Messages # <<>> /\ conversations # <<>>

\* C14: when a send completes successfully, streamed or not: if no
\* conversation was active when it started, activeConversationId is the
\* identifier the awaited request returned; if one was active, the send leaves
\* activeConversationId as it found it.
C14_AdoptOnlyWhenNoneWasActive ==
    ResolvedOk => IF Truthy(event.captured)
                  THEN activeConversationId = event.before
                  ELSE activeConversationId = event.result

\* C14 witness: a send into the active conversation "c1" completed, the
\* backend returned the identifier "abc", and "c1" is still active.
C14_Witness ==
    /\ ResolvedOk /\ event.captured = "c1" /\ event.result = "abc"
    /\ activeConversationId = "c1"

\* C15: in every reachable state the message list the client holds for a
\* conversation is a list the backend delivered, and it is written only when
\* a query resolves: streamed text lives in streamingContent alone, so no
\* partial or duplicated message is in client state during or after a send.
C15_MessagesComeFromBackend ==
    /\ [](\A uuid \in DOMAIN conversationQueries :
             conversationQueries[uuid].messages \in MessageLists)
    /\ [][conversationQueries' # conversationQueries => event'.op = "fetched"]_vars

\* C15 witness: text has been streamed into the buffer of a send into a
\* conversation whose backend messages are shown, and the message list is
\* still the backend's.
C15_Witness ==
    /\ isGenerating /\ streamingContent = <<"A", "B">>
    /\ Messages = BackendMessages

\* How many times a send invalidated the query key
TimesInvalidated(key) ==
    Cardinality({j \in DOMAIN event.invalidated : event.invalidated[j] = key})

\* C16: a streamed send into an already active conversation that succeeds has
\* requested exactly one refresh of the conversation list and exactly one of
\* that conversation's message list, and nothing else, and it did so after
\* the stream had been read to its end and closed.
C16_OneRefreshEachAfterStream ==
    (StreamReturned /\ Truthy(event.captured))
        => /\ TimesInvalidated(<<"conversations">>) = 1
           /\ TimesInvalidated(<<"conversation", event.captured>>) = 1
           /\ Len(event.invalidated) = 2
           /\ event.pos = Len(event.body)
           /\ event.calls # <<>> /\ event.calls[Len(event.calls)].done

\* C16 witness: a streamed send into the active conversation "c1" delivered
\* the chunks A and B, the stream closed, and the send resolved.
C16_Witness ==
    /\ StreamReturned /\ event.captured = "c1"
    /\ Chunks(NonFinal(event.calls)) = << <<"A">>, <<"B">> >>
    /\ Len(event.invalidated) = 2

\* The conversation_id a line of the response carries: Null when the line is
\* no data line, is no JSON, or has no such member
LineId(line) ==
    IF StartsWithData(line) /\ JSONParse(Slice6(line)).ok
    THEN JSONParse(Slice6(line)).conversation_id
    ELSE Null

\* The conversation_ids the data lines of a response carry, in stream order
RECURSIVE StreamIds(_)
StreamIds(lines) ==
    IF lines = <<>> THEN <<>>
    ELSE (IF LineId(Head(lines)) # Null THEN <<LineId(Head(lines))>> ELSE <<>>)
         \o StreamIds(Tail(lines))

\* C17 as claimed: when every conversation_id in the stream is non-empty,
\* sendMessageStream returns the one of the last data line that carries one,
\* and the empty string when no data line carries one.
C17_ReturnsLastId ==
    LET ids == StreamIds(StreamLines(event.body))
    IN  (StreamReturned /\ \A j \in DOMAIN ids : ids[j] # "")
            => event.result = IF ids = <<>> THEN "" ELSE ids[Len(ids)]

\* The texts among chunks that hold the character c
Holding(chunks, c) == {j \in DOMAIN chunks : \E n \in DOMAIN chunks[j] : chunks[j][n] = c}

\* C18 as claimed: when a read of the response ended between the two bytes
\* of a character, no text passed to onChunk holds a replacement character,
\* and every data line whose content holds the two-byte character produced
\* exactly one callback, no more and no less.
C18_SplitCharacterIsDelivered ==
    (StreamReturned /\ event.splitChar)
        => LET texts == Chunks(NonFinal(event.calls))
               contents == StreamContents(StreamLines(event.body))
           IN  /\ Holding(texts, "?") = {}
               /\ Cardinality(Holding(texts, "M")) = Cardinality(Holding(contents, "M"))

\* An entry is a plain string or an object with a name
HasName(m) == m.type = "string" \/ m.name # Null

\* C19: after a models response whose entries are each a string or an object
\* with a name, the stored model list has the length of the response and
\* holds, position by position, the string itself or the object's name.
C19_ModelsAreNormalisedToNames ==
    (/\ event.op = "models" /\ modelsData.present
     /\ \A j \in DOMAIN modelsData.models : HasName(modelsData.models[j]))
        => /\ Len(models) = Len(modelsData.models)
           /\ \A j \in DOMAIN models :
                  /\ models[j] \in ModelNames
                  /\ modelsData.models[j].type = "string"
                         => models[j] = modelsData.models[j].value
                  /\ modelsData.models[j].type = "object"
                         => models[j] = modelsData.models[j].name

\* C19 witness: a response mixing both shapes was stored as its names.
C19_Witness ==
    /\ event.op = "models" /\ modelsData.present
    /\ Len(modelsData.models) = 2
    /\ modelsData.models[1].type = "object" /\ modelsData.models[1].name = "llama3"
    /\ modelsData.models[2].type = "string" /\ modelsData.models[2].value = "dolphin-mistral"
    /\ models = <<"llama3", "dolphin-mistral">>

IsPrefix(s, t) == Len(s) <= Len(t) /\ SubSeq(t, 1, Len(s)) = s

\* A step of the one handleSendMessage in flight that writes the flag or the
\* buffer: its start, the read of a chunk, its end
WrittenBySend ==
    \/ /\ event'.op = "attempt" /\ inflight = <<>> /\ Len(inflight') = 1
       /\ isGenerating' = TRUE /\ streamingContent' = <<>>
    \/ /\ event'.op = "other" /\ Len(inflight) = 1 /\ Len(inflight') = 1
       /\ isGenerating /\ isGenerating' /\ IsPrefix(streamingContent, streamingContent')
    \/ /\ event'.op = "resolved" /\ Len(inflight) = 1 /\ inflight' = <<>>
       /\ isGenerating' = FALSE /\ streamingContent' = <<>>

\* C20: in every reachable state streamingContent is non-empty only while
\* isGenerating is true, and the two are written only by the steps of the one
\* handleSendMessage in flight: flag set and buffer cleared at its start, a
\* chunk appended per read, both cleared at its end; no other action writes them.
C20_BufferOnlyWhileGenerating ==
    /\ [](streamingContent # <<>> => isGenerating)
    /\ [][(isGenerating' # isGenerating \/ streamingContent' # streamingContent)
            => WrittenBySend]_vars

\* C20 witness: while text was in the buffer of a send in flight the user
\* took another action, and the buffer and the flag are as the send left them.
C20_Witness ==
    /\ event.op = "user" /\ isGenerating /\ streamingContent # <<>>
    /\ Len(inflight) = 1

\* C21: there is no timeout.  While the request of an accepted send is in
\* flight, isGenerating is cleared by nothing but the transport delivering
\* the end of the stream, a response or an error; as long as it delivers
\* none of them every step leaves isGenerating true and every send attempt
\* is rejected without issuing a request.
C21_NoTimeout ==
    [][inflight # <<>>
         => /\ (event'.op # "resolved" => isGenerating' = TRUE)
            /\ (event'.op \in {"attempt", "user"} => inflight' = inflight)]_vars

\* C21 witness: the connection of a send has not answered, the user changed
\* a setting and then tried to send again; the flag is still set and the one
\* request is still waiting.
C21_Witness ==
    /\ event.op = "attempt" /\ event.gen /\ ~event.blank /\ event.via = "send"
    /\ isGenerating /\ Len(inflight) = 1 /\ inflight[1].pc = "fetch"
    /\ inflight[1].streaming /\ ~settings.streamResponses

\* C22: the Stop control is the form's submit button shown while a
\* generation is in flight.  Activating it aborts nothing: the request in
\* flight, with all it has read, the buffer, the flag and everything else
\* are as they were, so the consumer goes on reading and delivering chunks
\* exactly as if the control had not been used.
C22_StopDoesNotAbort ==
    [][(isGenerating /\ event'.op = "attempt" /\ event'.via = "submit")
         => /\ inflight' = inflight
            /\ UNCHANGED <<isGenerating, streamingContent, activeConversationId, settings>>
            /\ UNCHANGED dataVars]_vars

\* C22 witness: Stop was activated in the middle of a stream, after a chunk
\* had reached the buffer and with bytes still to be read.
C22_Witness ==
    /\ event.op = "attempt" /\ event.via = "submit" /\ event.gen
    /\ Len(inflight) = 1 /\ inflight[1].pc = "read"
    /\ inflight[1].pos < Len(inflight[1].body)
    /\ streamingContent # <<>> /\ isGenerating

\* The request of a suspended send is at the endpoint its streaming mark says
AtItsEndpoint(send) ==
    IF send.streaming THEN send.pc \in {"fetch", "read"} ELSE send.pc = "post"

\* C23: an accepted send issues exactly one generation request, to the
\* streaming endpoint when settings.streamResponses is true as the send
\* starts and to the blocking endpoint when it is false, and stays with it;
\* on the non-streaming path the chunk callback is never called and
\* streamingContent is empty for the whole operation.
C23_EndpointBySettingAtStart ==
    /\ [](/\ \A i \in DOMAIN inflight :
                /\ AtItsEndpoint(inflight[i])
                /\ ~inflight[i].streaming
                       => inflight[i].calls = <<>> /\ streamingContent = <<>>
           /\ (ResolvedOk \/ ResolvedError) /\ ~event.streaming => event.calls = <<>>)
    /\ [][(event'.op = "attempt" /\ inflight' # inflight)
            => /\ Len(inflight') = Len(inflight) + 1
               /\ SubSeq(inflight', 1, Len(inflight)) = inflight
               /\ inflight'[Len(inflight')].streaming = settings.streamResponses
               /\ inflight'[Len(inflight')].pc =
                      IF settings.streamResponses THEN "fetch" ELSE "post"]_vars

\* C23 witness: a send started with streaming switched off is waiting for
\* the blocking endpoint while the setting has been switched on again; the
\* buffer is empty.
C23_Witness ==
    /\ Len(inflight) = 1 /\ ~inflight[1].streaming /\ inflight[1].pc = "post"
    /\ settings.streamResponses /\ event.op = "user"
    /\ isGenerating /\ streamingContent = <<>>

\* The final callbacks among calls
Final(calls) == SelectSeq(calls, LAMBDA c : c.done)

\* C24: when the transport of an accepted send does not hang, the send
\* resolves and isGenerating becomes false again; and a send resolves by one
\* exit only: a streamed send either returned an identifier after its one
\* final callback or was rejected without ever making the final callback,
\* and its request is gone with that step.
C24_SendTerminatesByOneExit ==
    /\ isGenerating ~> (~isGenerating /\ inflight = <<>>)
    /\ [](Resolved
             => /\ event.outcome \in {"ok", "error"}
                /\ event.outcome = "ok"
                       => /\ event.result # Null /\ event.toasts = 0
                          /\ event.streaming => Len(Final(event.calls)) = 1
                /\ event.outcome = "error"
                       => /\ event.result = Null /\ event.toasts = 1
                          /\ Final(event.calls) = <<>>)
    /\ [][event'.op = "resolved" => Len(inflight') = Len(inflight) - 1]_vars

\* C24 witness: a streamed send whose reads delivered text was then rejected
\* by a failing read and has resolved; nothing is in flight.
C24_Witness ==
    /\ ResolvedError /\ event.streaming /\ event.failure = "read"
    /\ event.pos > 0 /\ inflight = <<>> /\ ~isGenerating

\* C25: the adoption test of a send reads the activeConversationId the send
\* started with.  When a send started with no active conversation and the
\* user selected or created a conversation while it was in flight, its
\* successful completion overwrites activeConversationId with the identifier
\* the send returned.
C25_StaleCaptureOverwritesSelection ==
    (ResolvedOk /\ ~Truthy(event.captured) /\ Truthy(event.before))
        => activeConversationId = event.result

\* C25 witness: a send of a new chat returned "abc" after the user had made
\* the conversation "n1" during the stream; "abc" is active now.
C25_Witness ==
    /\ ResolvedOk /\ event.captured = Null /\ event.before = "n1"
    /\ event.result = "abc" /\ activeConversationId = "abc"

\* C26 as claimed: in every reachable state activeConversationId is null or
\* a non-empty identifier, never the empty string, whatever sends,
\* selections, creations and deletions have happened.
C26_ActiveIdNeverEmpty == activeConversationId # ""

\* list without the entries equal to uuid, the others in their order
RECURSIVE Without(_, _)
Without(list, uuid) ==
    IF list = <<>> THEN <<>>
    ELSE (IF Head(list) = uuid THEN <<>> ELSE <<Head(list)>>) \o Without(Tail(list), uuid)

\* C27: a successful deletion of conversation u leaves no conversation u in
\* the list and the others in their relative order; activeConversationId is
\* null afterwards when u was active, and untouched when it was not.  A
\* failed deletion changes neither the list nor activeConversationId.
C27_DeletionRemovesOnlyThat ==
    [][event'.op = "deleted"
         => IF event'.ok
            THEN /\ event'.uuid \notin Listed'
                 /\ conversations' = Without(conversations, event'.uuid)
                 /\ activeConversationId = event'.uuid => activeConversationId' = Null
                 /\ activeConversationId # event'.uuid
                        => activeConversationId' = activeConversationId
            ELSE UNCHANGED <<conversations, activeConversationId>>]_vars

\* C27 witness: the active conversation was deleted from a list of three;
\* two are left and none is active.
C27_Witness ==
    /\ event.op = "deleted" /\ event.ok
    /\ Len(conversations) = 2 /\ event.uuid \notin Listed
    /\ activeConversationId = Null

ReadWrappers ==
    {"getConversations", "getConversation", "getSystemPrompts", "getModels",
     "getDashboardStats"}

\* What a read wrapper resolves with when its request failed
ResolvesToFallback ==
    /\ event.name = "getConversations" => event.result.value = <<>>
    /\ event.name = "getConversation" => ~event.result.value.present
    /\ event.name = "getSystemPrompts" => event.result.value = <<>>
    /\ event.name = "getModels"
           => /\ Len(event.result.value.models) = 1
              /\ event.result.value.models[1].name = "dolphin-mistral"
    /\ event.name = "getDashboardStats"
           => \A f \in DOMAIN event.result.value : event.result.value[f] = 0

\* C28: a read wrapper never rejects: when its request fails,
\* getConversations resolves to the empty list, getConversation to null,
\* getSystemPrompts to the empty list, getModels to the single fallback model
\* and getDashboardStats to counters that are all zero.  The mutating calls
\* reject exactly when their request fails: createConversation and
\* deleteConversation, and sendMessage and sendMessageStream, whose failure
\* reaches the catch block of the send.
C28_ReadWrappersNeverReject ==
    /\ event.op = "api"
           => IF event.name \in ReadWrappers
              THEN /\ ~event.result.rejected
                   /\ ~event.ok => ResolvesToFallback
              ELSE event.result.rejected <=> ~event.ok
    /\ Resolved => (event.outcome = "error" <=> event.failure # "none")
    /\ ResolvedError => event.result = Null /\ event.toasts = 1

\* C28 witness: the request of getModels failed and the call resolved.
C28_Witness ==
    /\ event.op = "api" /\ event.name = "getModels" /\ ~event.ok
    /\ ~event.result.rejected

\* settings' is settings with exactly the fields of partial set to its values
SetsExactly(partial) ==
    /\ DOMAIN settings' = DOMAIN settings
    /\ \A f \in DOMAIN settings :
          settings'[f] = IF f \in DOMAIN partial THEN partial[f] ELSE settings[f]
    /\ UNCHANGED <<isGenerating, streamingContent, activeConversationId, inflight>>
    /\ UNCHANGED dataVars

\* C29: updateSettings(partial) sets exactly the settings fields of partial
\* and leaves every other settings field and every other store field as it
\* was; so Reset to Defaults restores temperature, topP, topK, maxTokens,
\* streamResponses and autoSave to their defaults and leaves defaultModel and
\* theme as they were.
C29_UpdateSettingsSetsExactlyPartial ==
    [][/\ \A f \in DOMAIN FieldValues : \A v \in FieldValues[f] :
             UpdateField(f, v) => SetsExactly([g \in {f} |-> v])
       /\ HandleReset
             => /\ SetsExactly(ResetValues)
                /\ \A f \in {"temperature", "topP", "topK", "maxTokens",
                               "streamResponses", "autoSave"} :
                       settings'[f] = defaultSettings[f]
                /\ settings'.defaultModel = settings.defaultModel
                /\ settings'.theme = settings.theme]_vars

\* C29 witness: the model and the theme had been changed and Reset to
\* Defaults was used: the six fields are the defaults, the model and the theme are still
\* the user's.
C29_Witness ==
    /\ event.op = "reset"
    /\ settings = [defaultSettings EXCEPT !.defaultModel = "llama3", !.theme = "light"]

\* The last call of the burst in progress
LastCall == burst[Len(burst)]

\* C30: a call of the debounced function never invokes func itself; each call
\* cancels the timer of the call before it, so at most one timer is pending
\* and it carries the arguments of the last call; when it fires, func is
\* invoked once with the arguments of the last call of the burst and nothing
\* of the burst stays pending.
C30_DebounceInvokesOnceWithLastArgs ==
    /\ [](IF burst = <<>>
          THEN timers = {} /\ timeout = NoTimeout
          ELSE timers = {[id |-> timeout, args |-> LastCall]})
    /\ [][/\ burst' # burst /\ burst' # <<>> => invoked' = invoked
          /\ invoked' # invoked
                => /\ burst # <<>>
                   /\ invoked' = Append(invoked, LastCall)
                   /\ timers' = {}
                   /\ burst' = <<>>]_vars

\* C30 witness: a burst of two calls with different arguments ended with
\* its timer firing, and func has been invoked once, with the second call's
\* arguments.
C30_Witness ==
    /\ event.op = "fired"
    /\ event.calls = <<"a", "b">>
    /\ invoked = <<"b">>
====
